---- MODULE Spec2Model ----
(***************************************************************************)
(* CodeHive dependency graph engine: parseCppIncludes and buildGraph       *)
(* (src/src/types.ts), the refactoring sandbox handleSandboxMove, the      *)
(* Dependents list and the GraphView highlighting effect (src/src/App.tsx).*)
(*                                                                         *)
(* Spec is the sandbox over a loaded repository, SpecStale the sandbox     *)
(* applied while a file of the repository loaded before is still selected, *)
(* SpecHighlight the graph view (selection, hover, mode and depth) over a  *)
(* loaded repository, SpecParse the include parser applied to a file text, *)
(* SpecLoad the repository load handleRepoSelected with its concurrent     *)
(* content fetches, Switch Repository and logout (FairSpecLoad adds that   *)
(* every fetch settles), and SpecSession the whole session: loads, Switch  *)
(* Repository, selection, hover and sandbox moves.                         *)
(*                                                                         *)
(* Strings are sequences of one-character strings, so that split('/'),     *)
(* endsWith, toLowerCase and the two normalisation regular expressions are *)
(* computed character by character, as the JavaScript does.                *)
(*                                                                         *)
(* Graph nodes carry id, name, path and (after a sandbox move) isBroken.   *)
(* The display attributes group, size, churn and lastModified are read by  *)
(* no operation modelled here and are left out.                            *)
(***************************************************************************)
EXTENDS Integers, Sequences, FiniteSets, TLC

VARIABLES files, graphData, builtFrom, sandboxMoves, lastMove,
          selectedFile, hoveredFile, highlightMode, highlightDepth, highlight,
          content, parsed,
          user, loadingRepo, repoTree, currentRepoId, load

vars == <<files, graphData, builtFrom, sandboxMoves, lastMove,
          selectedFile, hoveredFile, highlightMode, highlightDepth, highlight,
          content, parsed,
          user, loadingRepo, repoTree, currentRepoId, load>>

\* The text of a file being loaded and the includes field parseCppIncludes
\* gave it (Null until the text is parsed).
parseVars == <<content, parsed>>

\* builtFrom is the file list the displayed graph was built from and lastMove
\* the arguments of the latest handleSandboxMove call (Null before the first).
sandboxVars == <<files, graphData, builtFrom, sandboxMoves, lastMove>>

viewVars == <<selectedFile, hoveredFile, highlightMode, highlightDepth, highlight>>

\* The signed-in user, the loader flag, the cached repository tree with the
\* id of its repository, and the locals of the latest handleRepoSelected
\* call (Null before the first).
loadVars == <<user, loadingRepo, repoTree, currentRepoId, load>>

----------------------------------------------------------------------------
(* Bounds *)

\* Largest number of files in the loaded file set.
MaxFiles == 3

\* Largest number of include directives in the loaded file set (all files).
MaxIncludes == 2

\* Largest number of distinct old paths recorded in sandboxMoves.
MaxMoves == 1

\* Largest position of the highlight depth slider (the slider ends at 10).
MaxDepth == 2

\* Largest number of lines of a file's text.
MaxLines == 2

----------------------------------------------------------------------------
(* String literals *)

a_a_cpp == <<"a", "/", "a", ".", "c", "p", "p">>
a_b_h == <<"a", "/", "b", ".", "h">>
lib_b_h == <<"l", "i", "b", "/", "b", ".", "h">>
src_x_y_cpp == <<"s", "r", "c", "/", "x", "/", "y", ".", "c", "p", "p">>
src_common_util_h == <<"s", "r", "c", "/", "c", "o", "m", "m", "o", "n", "/", "u", "t", "i", "l", ".", "h">>
lib_util_h == <<"l", "i", "b", "/", "u", "t", "i", "l", ".", "h">>
inc_b_h == <<"b", ".", "h">>
inc_B_H == <<"B", ".", "H">>
inc_up_common_util_h == <<".", ".", "/", "c", "o", "m", "m", "o", "n", "/", "u", "t", "i", "l", ".", "h">>
inc_common_util_h == <<"c", "o", "m", "m", "o", "n", "/", "u", "t", "i", "l", ".", "h">>
inc_vector == <<"v", "e", "c", "t", "o", "r">>

\* Lines of C++ text.
kw_include == <<"i", "n", "c", "l", "u", "d", "e">>
line_quoted == <<"#">> \o kw_include \o <<" ", "\"", "a", "\"">>
line_angled == <<" ", "#", " ">> \o kw_include \o <<" ", "<", "b", ">">>
line_mixed == <<"#">> \o kw_include \o <<" ", "\"", "c", ">">>
line_keyword == <<"#">> \o kw_include
line_token == <<" ", "<", "d", ">">>
line_comment == <<"/", "/", "#">> \o kw_include \o <<" ", "<", "b", ">">>
line_text == <<"x", ";">>
line_empty == << >>

LinePool == {line_quoted, line_angled, line_mixed, line_keyword, line_token,
             line_comment, line_text, line_empty}

\* The repositories a session may load: the paths of their C++ files and the
\* include targets those files may declare.  A load yields any list of up to
\* MaxFiles of a repository's files, in any order.
Repositories ==
    { [paths    |-> {a_a_cpp, a_b_h, lib_b_h},
       includes |-> {inc_b_h, inc_B_H}],
      [paths    |-> {src_x_y_cpp, src_common_util_h, lib_util_h},
       includes |-> {inc_up_common_util_h, inc_common_util_h}],
      [paths    |-> {a_a_cpp, a_b_h},
       includes |-> {inc_b_h, inc_vector}] }

\* Paths typed into the sandbox "Virtual Path" field (besides the file's own).
NewPathPool == {lib_b_h}

----------------------------------------------------------------------------
(* JavaScript string primitives *)

\* The value of a failed Array.prototype.find / Map.prototype.get; like the
\* empty string it is falsy in `!targetPath` and `targetPath &&`.
Undefined == << >>

Min(S) == CHOOSE x \in S : \A y \in S : x <= y

Max(S) == CHOOSE x \in S : \A y \in S : x >= y

\* Index of the last "/" of s, 0 when s has none.
LastSlash(s) ==
    LET S == {i \in 1..Len(s) : s[i] = "/"}
    IN  IF S = {} THEN 0 ELSE Max(S)

\* s.split('/').pop() || s
LastSegmentOr(s) ==
    LET seg == SubSeq(s, LastSlash(s) + 1, Len(s))
    IN  IF seg = << >> THEN s ELSE seg

\* s.split('/').slice(0, -1).join('/')
DirOf(s) == SubSeq(s, 1, LastSlash(s) - 1)

\* s.endsWith(t)
EndsWith(s, t) ==
    /\ Len(t) <= Len(s)
    /\ SubSeq(s, Len(s) - Len(t) + 1, Len(s)) = t

UpperChars == <<"A", "B", "C", "D", "E", "F", "G", "H", "I", "J", "K", "L", "M",
                "N", "O", "P", "Q", "R", "S", "T", "U", "V", "W", "X", "Y", "Z">>

LowerChars == <<"a", "b", "c", "d", "e", "f", "g", "h", "i", "j", "k", "l", "m",
                "n", "o", "p", "q", "r", "s", "t", "u", "v", "w", "x", "y", "z">>

\* s.toLowerCase()
ToLowerCase(s) ==
    [i \in 1..Len(s) |->
        IF \E k \in 1..26 : UpperChars[k] = s[i]
        THEN LowerChars[CHOOSE k \in 1..26 : UpperChars[k] = s[i]]
        ELSE s[i]]

\* Index of the first "/" of s at or after position i, Len(s) + 1 when none.
NextSlash(s, i) ==
    LET S == {j \in i..Len(s) : s[j] = "/"}
    IN  IF S = {} THEN Len(s) + 1 ELSE Min(S)

\* s.replace(/\/.\//g, '/') from position i on: the dot is unescaped in the
\* source, so "/", any one character, "/" is replaced by "/".  A match can
\* only start at a "/", so the text up to the next "/" is copied.
RECURSIVE ReplaceSlashAnySlash(_, _)
ReplaceSlashAnySlash(s, i) ==
    IF i > Len(s) THEN << >>
    ELSE LET j == NextSlash(s, i)
         IN  IF j > Len(s) THEN SubSeq(s, i, Len(s))
             ELSE IF j + 2 <= Len(s) /\ s[j + 2] = "/"
                  THEN SubSeq(s, i, j) \o ReplaceSlashAnySlash(s, j + 3)
                  ELSE SubSeq(s, i, j) \o ReplaceSlashAnySlash(s, j + 1)

\* s.replace(/[^\/]+\/\.\.\//g, '') from position i on: a maximal run of
\* non-slash characters followed by "/../" is deleted; a run followed by
\* anything else is copied, since no part of it can start a match.
RECURSIVE ReplaceSegmentDotDot(_, _)
ReplaceSegmentDotDot(s, i) ==
    IF i > Len(s) THEN << >>
    ELSE IF s[i] = "/" THEN <<"/">> \o ReplaceSegmentDotDot(s, i + 1)
    ELSE LET j == NextSlash(s, i)
         IN  IF /\ j + 3 <= Len(s)
                /\ s[j + 1] = "." /\ s[j + 2] = "." /\ s[j + 3] = "/"
             THEN ReplaceSegmentDotDot(s, j + 4)
             ELSE SubSeq(s, i, j - 1) \o ReplaceSegmentDotDot(s, j)

\* potentialPath.replace(/\/.\//g, '/').replace(/[^\/]+\/\.\.\//g, '')
\* (the result of the first replace is bound as a value, computed once).
Normalize(potentialPath) ==
    CHOOSE r \in {ReplaceSegmentDotDot(s, 1) :
                    s \in {ReplaceSlashAnySlash(p, 1) : p \in {potentialPath}}} :
        TRUE

----------------------------------------------------------------------------
(* parseCppIncludes (types.ts) *)

\* \s of the regular expression (of its characters the texts here use space,
\* tab and newline).
IsSpace(c) == c \in {" ", "\t", "\n"}

\* The position after the longest run of \s characters from position i.
SkipSpaces(s, i) ==
    IF i > Len(s) THEN i
    ELSE Min({j \in i..(Len(s) + 1) : j = Len(s) + 1 \/ ~ IsSpace(s[j])})

\* The position after the longest run of [^">] characters from position i.
SkipToken(s, i) ==
    IF i > Len(s) THEN i
    ELSE Min({j \in i..(Len(s) + 1) : j = Len(s) + 1 \/ s[j] \in {"\"", ">"}})

StartsWithAt(s, i, w) ==
    /\ i + Len(w) - 1 <= Len(s)
    /\ SubSeq(s, i, i + Len(w) - 1) = w

\* ^ under the m flag: the start of the text or the position after a newline.
LineStart(s, i) == i = 1 \/ s[i - 1] = "\n"

\* The positions the match of /^\s*#\s*include\s+["<]([^">]+)[">]/ from
\* position i goes through: hash, keyword, opening delimiter, token, closing
\* delimiter.
MatchPositions(s, i) ==
    LET hash    == SkipSpaces(s, i)
        keyword == SkipSpaces(s, hash + 1)
        open    == SkipSpaces(s, keyword + Len(kw_include))
        close   == SkipToken(s, open + 1)
    IN  [hash |-> hash, keyword |-> keyword, open |-> open, close |-> close]

\* The regular expression matches from position i.
MatchesAt(s, i) ==
    /\ LineStart(s, i)
    /\ SkipSpaces(s, i) <= Len(s)
    /\ s[SkipSpaces(s, i)] = "#"
    /\ StartsWithAt(s, SkipSpaces(s, SkipSpaces(s, i) + 1), kw_include)
    /\ LET m == MatchPositions(s, i)
       IN  /\ m.open > m.keyword + Len(kw_include)
           /\ m.open <= Len(s)
           /\ s[m.open] \in {"\"", "<"}
           /\ m.close > m.open + 1
           /\ m.close <= Len(s)

\* match[1] of the match from position i.
Captured(s, i) ==
    LET m == MatchPositions(s, i) IN SubSeq(s, m.open + 1, m.close - 1)

\* The while loop: exec searches from lastIndex for the first position the
\* expression matches from, and sets lastIndex to the end of the match.
RECURSIVE ExecFrom(_, _)
ExecFrom(s, i) ==
    LET S == {j \in i..Len(s) : MatchesAt(s, j)}
    IN  IF S = {} THEN << >>
        ELSE << Captured(s, Min(S)) >>
                 \o ExecFrom(s, MatchPositions(s, Min(S)).close + 1)

parseCppIncludes(text) == ExecFrom(text, 1)

----------------------------------------------------------------------------
(* buildGraph *)

\* fs.find(test)?.path, where hits is the set of the indexes of the files of fs
\* that satisfy test: the path of the first of them, Undefined when none does.
FindPath(fs, hits) ==
    IF hits = {} THEN Undefined ELSE fs[Min(hits)].path

\* const potentialPath = currentDir ? `${currentDir}/${include}` : include
PotentialPath(file, include) ==
    LET currentDir == DirOf(file.path)
    IN  IF currentDir # << >> THEN currentDir \o <<"/">> \o include ELSE include

\* Step 1 predicate: f.path === normalized || f.path === include ||
\* f.path.endsWith(include)
RelativeMatch(f, normalized, include) ==
    \/ f.path = normalized
    \/ f.path = include
    \/ EndsWith(f.path, include)

\* files.find(f => f.path === normalized || f.path === include ||
\* f.path.endsWith(include))?.path
\* (normalized is bound as a value, computed once for all files).
RelativeFind(fs, normalized, include) ==
    CHOOSE r \in {FindPath(fs, {i \in 1..Len(fs) :
                                    RelativeMatch(fs[i], n, include)}) :
                    n \in {normalized}} : TRUE

\* Variant of FilenameToPaths that puts each path in front of the list
\* (unshift for push), so that the list is in reverse file order.
FilenameToPathsUnshift(fs, name) ==
    LET hit(f) == LastSegmentOr(f.path) = name
        sel == SelectSeq(fs, hit)
    IN  [i \in 1..Len(sel) |-> sel[Len(sel) + 1 - i].path]

\* filenameToPaths.get(name): the paths of fs whose last segment is name, in
\* the order of fs; the empty sequence stands for a missing key.
FilenameToPaths(fs, name) ==
    LET hit(f) == LastSegmentOr(f.path) = name
        sel == SelectSeq(fs, hit)
    IN  [i \in 1..Len(sel) |-> sel[i].path]

\* candidates && candidates.length > 0 ? candidates[0] : undefined
FilenameFind(fs, includeName) ==
    LET candidates == FilenameToPaths(fs, includeName)
    IN  IF Len(candidates) > 0 THEN candidates[1] ELSE Undefined

\* Step 3 predicate: f.path.toLowerCase().endsWith(include.toLowerCase())
FuzzyMatch(f, include) == EndsWith(ToLowerCase(f.path), ToLowerCase(include))

\* Variant of FuzzyFind that falls back to the include target itself when no
\* file matches.
FuzzyFindOrVerbatim(fs, include) ==
    LET found == FindPath(fs, {i \in 1..Len(fs) : FuzzyMatch(fs[i], include)})
    IN  IF found = Undefined THEN include ELSE found

\* files.find(f => f.path.toLowerCase().endsWith(include.toLowerCase()))?.path
FuzzyFind(fs, include) ==
    FindPath(fs, {i \in 1..Len(fs) : FuzzyMatch(fs[i], include)})

\* Variant of ResolveInclude that consults the filename map before the
\* relative-path match.
ResolveIncludeFilenameFirst(fs, file, include) ==
    LET normalized == Normalize(PotentialPath(file, include))
        step2 == FilenameFind(fs, LastSegmentOr(include))
        step1 == IF step2 = Undefined
                 THEN RelativeFind(fs, normalized, include) ELSE step2
    IN  IF step1 = Undefined THEN FuzzyFind(fs, include) ELSE step1

\* Variant of ResolveInclude that resolves during the traversal, against the
\* files visited up to and including the declaring file only.
ResolveIncludeOnePass(fs, file, include) ==
    LET seen == SubSeq(fs, 1, Min({i \in 1..Len(fs) : fs[i] = file} \cup {Len(fs)}))
        normalized == Normalize(PotentialPath(file, include))
        step1 == RelativeFind(seen, normalized, include)
        step2 == IF step1 = Undefined
                 THEN FilenameFind(seen, LastSegmentOr(include)) ELSE step1
    IN  IF step2 = Undefined THEN FuzzyFind(seen, include) ELSE step2

\* The three resolution steps of the include loop; Undefined when all fail.
ResolveInclude(fs, file, include) ==
    LET includeName == LastSegmentOr(include)
        normalized  == Normalize(PotentialPath(file, include))
        step1       == RelativeFind(fs, normalized, include)
        step2       == IF step1 = Undefined
                       THEN FilenameFind(fs, includeName) ELSE step1
    IN  IF step2 = Undefined THEN FuzzyFind(fs, include) ELSE step2

\* Variant of LinkFor without the comparison with the declaring file's path.
LinkForNoSelfCheck(file, targetPath) ==
    IF targetPath # Undefined
    THEN << [source |-> file.path, target |-> targetPath] >>
    ELSE << >>

\* Variant of LinkFor without the test that the target was resolved.
LinkForNoResolvedCheck(file, targetPath) ==
    IF targetPath # file.path
    THEN << [source |-> file.path, target |-> targetPath] >>
    ELSE << >>

\* if (targetPath && targetPath !== file.path) links.push({source, target})
LinkFor(file, targetPath) ==
    IF targetPath # Undefined /\ targetPath # file.path
    THEN << [source |-> file.path, target |-> targetPath] >>
    ELSE << >>

\* The links pushed for the includes k.. of one file.
RECURSIVE LinksOfFile(_, _, _)
LinksOfFile(fs, file, k) ==
    IF k > Len(file.includes) THEN << >>
    ELSE LinkFor(file, ResolveInclude(fs, file, file.includes[k]))
             \o LinksOfFile(fs, file, k + 1)

\* The links pushed for the files i.. of fs.
RECURSIVE LinksFrom(_, _)
LinksFrom(fs, i) ==
    IF i > Len(fs) THEN << >>
    ELSE LinksOfFile(fs, fs[i], 1) \o LinksFrom(fs, i + 1)

\* Object.fromEntries(files.map(f => [f.path, f])): a later file with the
\* same path overwrites an earlier one.
FileIndex(fs) ==
    [p \in {fs[i].path : i \in 1..Len(fs)} |->
        fs[Max({i \in 1..Len(fs) : fs[i].path = p})]]

buildGraph(fs) ==
    [ nodes |-> [i \in 1..Len(fs) |->
                    [id |-> fs[i].path, name |-> fs[i].name, path |-> fs[i].path]],
      links |-> LinksFrom(fs, 1),
      files |-> FileIndex(fs) ]

----------------------------------------------------------------------------
(* Loaded file sets *)

\* graphData before any repository is loaded.
Null == [none |-> TRUE]

\* A CodeFile as handleRepoSelected creates it.
CodeFile(p, incs) == [name |-> LastSegmentOr(p), path |-> p, includes |-> incs]

IncLists(repo) == UNION {[1..n -> repo.includes] : n \in 0..MaxIncludes}

RECURSIVE TotalIncludes(_, _)
TotalIncludes(incs, i) ==
    IF i > Len(incs) THEN 0 ELSE Len(incs[i]) + TotalIncludes(incs, i + 1)

\* File lists with pairwise distinct paths.
PathLists(repo) ==
    UNION {{ps \in [1..n -> repo.paths] : \A i, j \in 1..n : ps[i] = ps[j] => i = j}
           : n \in 1..MaxFiles}

\* The file lists a load of repo may produce.
FileLists(repo) ==
    UNION {{[i \in 1..Len(ps) |-> CodeFile(ps[i], incs[i])] :
              incs \in {x \in [1..Len(ps) -> IncLists(repo)] :
                          TotalIncludes(x, 1) <= MaxIncludes}}
           : ps \in PathLists(repo)}

\* The user object checkUser stores once GitHub has authenticated.
SignedIn == [login |-> "dev"]

\* A file entry and a directory entry of the repository tree.
Blob(p) == [path |-> p, type |-> "blob"]

Dir(p) == [path |-> p, type |-> "tree"]

\* A tree listing the files fs in their order.
TreeOf(fs) == [i \in 1..Len(fs) |-> Blob(fs[i].path)]

\* The application state around the file list fs of a finished load: signed
\* in, loader off, the tree cached, no handleRepoSelected call in flight.
AfterLoad(fs) ==
    /\ user = SignedIn
    /\ loadingRepo = FALSE
    /\ repoTree = TreeOf(fs)
    /\ currentRepoId = IF fs = << >> THEN 0 ELSE 1
    /\ load = Null

----------------------------------------------------------------------------
(* GraphView highlighting effect (App.tsx) *)

\* No active path: every node and link is drawn at full opacity.
NoHighlight == [all |-> TRUE]

\* hoveredFile?.path || selectedFile?.path
ActivePath(hovered, selected) ==
    IF hovered # Null /\ hovered.path # << >>
    THEN hovered.path
    ELSE IF selected # Null THEN selected.path ELSE Undefined

\* Variant of InitialHighlight without neighbors.add(activePath).
InitialHighlightEmpty(activePath) ==
    [neighbors |-> {}, activeLinks |-> {}, nextLevel |-> << >>]

\* neighbors = new Set(); activeLinks = new Set(); neighbors.add(activePath)
InitialHighlight(activePath) ==
    [neighbors |-> {activePath}, activeLinks |-> {}, nextLevel |-> << >>]

\* Variant of StartLevel that also starts each level with no active links.
StartLevelFresh(acc) ==
    [neighbors |-> acc.neighbors, activeLinks |-> {}, nextLevel |-> << >>]

\* const nextLevel = [] at the top of the loop body
StartLevel(acc) == [acc EXCEPT !.nextLevel = << >>]

\* Variant of LoopContinues that runs one level more.
LoopContinuesInclusive(i, depth) == i <= depth

\* for (let i = 0; i < highlightDepth; i++)
LoopContinues(i, depth) == i < depth

Includes(level, p) == \E x \in 1..Len(level) : level[x] = p

\* Variant of VisitOutbound that queues the target without the
\* !neighbors.has(t) test.
VisitOutboundRepush(link, l, currentLevel, mode, acc) ==
    IF Includes(currentLevel, link.source) /\ mode \in {"all", "out"}
    THEN [neighbors   |-> acc.neighbors \cup {link.target},
          activeLinks |-> acc.activeLinks \cup {l},
          nextLevel   |-> Append(acc.nextLevel, link.target)]
    ELSE acc

\* The first `if` of the forEach body: an outbound link of the current level.
VisitOutbound(link, l, currentLevel, mode, acc) ==
    IF Includes(currentLevel, link.source) /\ mode \in {"all", "out"}
    THEN [neighbors   |-> acc.neighbors \cup {link.target},
          activeLinks |-> acc.activeLinks \cup {l},
          nextLevel   |-> IF link.target \notin acc.neighbors
                          THEN Append(acc.nextLevel, link.target)
                          ELSE acc.nextLevel]
    ELSE acc

\* Variant of VisitInbound that records the link without neighbors.add(s).
VisitInboundLinkOnly(link, l, currentLevel, mode, acc) ==
    IF Includes(currentLevel, link.target) /\ mode \in {"all", "in"}
    THEN [neighbors   |-> acc.neighbors,
          activeLinks |-> acc.activeLinks \cup {l},
          nextLevel   |-> IF link.source \notin acc.neighbors
                          THEN Append(acc.nextLevel, link.source)
                          ELSE acc.nextLevel]
    ELSE acc

\* The second `if` of the forEach body: an inbound link of the current level.
VisitInbound(link, l, currentLevel, mode, acc) ==
    IF Includes(currentLevel, link.target) /\ mode \in {"all", "in"}
    THEN [neighbors   |-> acc.neighbors \cup {link.source},
          activeLinks |-> acc.activeLinks \cup {l},
          nextLevel   |-> IF link.source \notin acc.neighbors
                          THEN Append(acc.nextLevel, link.source)
                          ELSE acc.nextLevel]
    ELSE acc

\* data.links.forEach from link l on; a link is identified by its position.
RECURSIVE ScanLinks(_, _, _, _, _)
ScanLinks(links, l, currentLevel, mode, acc) ==
    IF l > Len(links) THEN acc
    ELSE ScanLinks(links, l + 1, currentLevel, mode,
             VisitInbound(links[l], l, currentLevel, mode,
                 VisitOutbound(links[l], l, currentLevel, mode, acc)))

\* The level loop from iteration i on; it breaks when a level is empty.
RECURSIVE Levels(_, _, _, _, _, _)
Levels(links, i, depth, currentLevel, mode, acc) ==
    IF ~ LoopContinues(i, depth) THEN acc
    ELSE LET r == ScanLinks(links, 1, currentLevel, mode, StartLevel(acc))
         IN  IF Len(r.nextLevel) = 0 THEN r
             ELSE Levels(links, i + 1, depth, r.nextLevel, mode, r)

\* The neighbors and activeLinks sets the effect computes for activePath.
Highlight(links, activePath, mode, depth) ==
    LET r == Levels(links, 0, depth, <<activePath>>, mode,
                    InitialHighlight(activePath))
    IN  [neighbors |-> r.neighbors, activeLinks |-> r.activeLinks]

\* The highlighting effect, run when data, selectedFile, hoveredFile,
\* highlightMode or highlightDepth changes.
HighlightEffect(data, selected, hovered, mode, depth) ==
    IF data = Null THEN NoHighlight
    ELSE IF ActivePath(hovered, selected) = Undefined THEN NoHighlight
         ELSE Highlight(data.links, ActivePath(hovered, selected), mode, depth)

----------------------------------------------------------------------------
(* State machine *)

\* The state once a repository load has finished: setFiles(loadedFiles) and
\* setGraphData(buildGraph(loadedFiles)); no sandbox move has been applied.
Init ==
    /\ \E repo \in Repositories : files \in FileLists(repo)
    /\ graphData = buildGraph(files)
    /\ builtFrom = files
    /\ sandboxMoves = << >>
    /\ lastMove = Null
    /\ selectedFile = Null
    /\ hoveredFile = Null
    /\ highlightMode = "all"
    /\ highlightDepth = 1
    /\ highlight = NoHighlight
    /\ content = << >>
    /\ parsed = Null
    /\ AfterLoad(files)

\* files.map(f => f.path === oldPath ? { ...f, path: newPath } : f)
UpdatedFiles(fs, oldPath, newPath) ==
    [i \in 1..Len(fs) |->
        IF fs[i].path = oldPath THEN [fs[i] EXCEPT !.path = newPath] ELSE fs[i]]

\* file.includes.some(inc => !updatedFiles.some(f => f.path.endsWith(incName)))
HasBroken(updatedFiles, file) ==
    \E k \in 1..Len(file.includes) :
        LET incName == LastSegmentOr(file.includes[k])
        IN  ~ \E i \in 1..Len(updatedFiles) : EndsWith(updatedFiles[i].path, incName)

\* newGraph.nodes.map(n => ...): the first file with the node's path decides.
MarkBroken(updatedFiles, nodes) ==
    [j \in 1..Len(nodes) |->
        LET S == {i \in 1..Len(updatedFiles) : updatedFiles[i].path = nodes[j].path}
        IN  IF S # {}
            THEN [id |-> nodes[j].id, name |-> nodes[j].name, path |-> nodes[j].path,
                  isBroken |-> HasBroken(updatedFiles, updatedFiles[Min(S)])]
            ELSE nodes[j]]

\* { ...prev, [oldPath]: newPath }
PutMove(prev, oldPath, newPath) ==
    [p \in DOMAIN prev \cup {oldPath} |-> IF p = oldPath THEN newPath ELSE prev[p]]

\* Variant of FilesAfterMove in which the move is applied to the loaded files.
FilesAfterMoveInPlace(fs, updatedFiles) == updatedFiles

\* The files state after a move: handleSandboxMove calls setSandboxMoves and
\* setGraphData only; updatedFiles is a local of the handler.
FilesAfterMove(fs, updatedFiles) == fs

\* Variant of MoveSource that maps over the list of the previous simulation.
MoveSourceSimulated(fs, simulated) == simulated

\* files.map(...) in handleSandboxMove reads the `files` state, not the list
\* the displayed graph was built from.
MoveSource(fs, simulated) == fs

HandleSandboxMove(oldPath, newPath) ==
    /\ Cardinality(DOMAIN sandboxMoves \cup {oldPath}) <= MaxMoves
    /\ sandboxMoves' = PutMove(sandboxMoves, oldPath, newPath)
    /\ IF graphData # Null
       THEN LET updatedFiles == UpdatedFiles(MoveSource(files, builtFrom),
                                             oldPath, newPath)
                newGraph     == buildGraph(updatedFiles)
            IN  /\ graphData' = [newGraph EXCEPT
                                    !.nodes = MarkBroken(updatedFiles, newGraph.nodes)]
                /\ builtFrom' = updatedFiles
       ELSE UNCHANGED <<graphData, builtFrom>>
    /\ files' = FilesAfterMove(files, UpdatedFiles(files, oldPath, newPath))
    /\ lastMove' = [oldPath |-> oldPath, newPath |-> newPath]
    /\ UNCHANGED <<selectedFile, hoveredFile, highlightMode, highlightDepth>>
    /\ highlight' = HighlightEffect(graphData', selectedFile, hoveredFile,
                                    highlightMode, highlightDepth)
    /\ UNCHANGED <<parseVars, loadVars>>

\* DocPanel dependents: files.filter(f => f.includes.some(inc =>
\*   selectedFile.path.endsWith(inc.split('/').pop() || inc)))
Dependents(fs, selected) ==
    SelectSeq(fs, LAMBDA f :
        \E k \in 1..Len(f.includes) :
            EndsWith(selected.path, LastSegmentOr(f.includes[k])))

\* The paths of the files the user can select: a sidebar entry (files) or a
\* node of the displayed graph (graphData.files[node.id]).
SelectablePaths ==
    {files[i].path : i \in 1..Len(files)}
        \cup (IF graphData # Null THEN DOMAIN graphData.files ELSE {})

\* DocPanel "Apply": onMove(newPath) => handleSandboxMove(selectedFile.path, newPath)
Next ==
    \E oldPath \in SelectablePaths :
        \E newPath \in NewPathPool \cup {oldPath} :
            HandleSandboxMove(oldPath, newPath)

Spec == Init /\ [][Next]_vars

----------------------------------------------------------------------------
(* State machine of the graph view *)

\* A repository whose files include each other by full path.
ViewPaths == <<a_a_cpp, a_b_h, lib_b_h>>

ViewRepository == [paths |-> {a_a_cpp, a_b_h, lib_b_h}, includes |-> {a_b_h, lib_b_h}]

ViewFileLists ==
    {[i \in 1..Len(ViewPaths) |-> CodeFile(ViewPaths[i], incs[i])] :
        incs \in {x \in [1..Len(ViewPaths) -> IncLists(ViewRepository)] :
                    TotalIncludes(x, 1) <= MaxIncludes}}

\* A file selected while another repository was loaded: neither "Switch
\* Repository" nor handleRepoSelected clears selectedFile.
StaleFile == CodeFile(lib_util_h, << >>)

\* The state once a repository load has finished, with the graph view at its
\* initial mode and depth.
InitHighlight ==
    /\ files \in ViewFileLists
    /\ graphData = buildGraph(files)
    /\ builtFrom = files
    /\ sandboxMoves = << >>
    /\ lastMove = Null
    /\ selectedFile \in {Null, StaleFile}
    /\ hoveredFile = Null
    /\ highlightMode = "all"
    /\ highlightDepth = 1
    /\ highlight = HighlightEffect(graphData, selectedFile, hoveredFile,
                                   highlightMode, highlightDepth)
    /\ content = << >>
    /\ parsed = Null
    /\ AfterLoad(files)

\* The effect runs after every change of the view state.
RunEffect ==
    highlight' = HighlightEffect(graphData, selectedFile', hoveredFile',
                                 highlightMode', highlightDepth')

\* handleNodeClick(node): a click on a node, or on the background (null).
HandleNodeClick(node) ==
    /\ selectedFile' = IF node # Null /\ graphData # Null
                       THEN graphData.files[node.id]
                       ELSE Null
    /\ UNCHANGED <<hoveredFile, highlightMode, highlightDepth>>
    /\ RunEffect
    /\ UNCHANGED <<sandboxVars, parseVars, loadVars>>

\* handleNodeHover(node): mouseenter on a node, or mouseleave (null).
HandleNodeHover(node) ==
    /\ IF node # Null /\ graphData # Null
       THEN /\ hoveredFile' = graphData.files[node.id]
            /\ selectedFile' = graphData.files[node.id]
       ELSE /\ hoveredFile' = Null
            /\ UNCHANGED selectedFile
    /\ UNCHANGED <<highlightMode, highlightDepth>>
    /\ RunEffect
    /\ UNCHANGED <<sandboxVars, parseVars, loadVars>>

\* Sidebar entry of file f: onClick={() => setSelectedFile(f)}
SidebarClick(f) ==
    /\ selectedFile' = f
    /\ UNCHANGED <<hoveredFile, highlightMode, highlightDepth>>
    /\ RunEffect
    /\ UNCHANGED <<sandboxVars, parseVars, loadVars>>

\* Sidebar entry of file f: onMouseEnter={() => setHoveredFile(f)}
SidebarMouseEnter(f) ==
    /\ hoveredFile' = f
    /\ UNCHANGED <<selectedFile, highlightMode, highlightDepth>>
    /\ RunEffect
    /\ UNCHANGED <<sandboxVars, parseVars, loadVars>>

\* onMouseLeave={() => setHoveredFile(null)}
SidebarMouseLeave ==
    /\ hoveredFile' = Null
    /\ UNCHANGED <<selectedFile, highlightMode, highlightDepth>>
    /\ RunEffect
    /\ UNCHANGED <<sandboxVars, parseVars, loadVars>>

\* DocPanel onClose={() => setSelectedFile(null)}
CloseDocPanel ==
    /\ selectedFile # Null
    /\ selectedFile' = Null
    /\ UNCHANGED <<hoveredFile, highlightMode, highlightDepth>>
    /\ RunEffect
    /\ UNCHANGED <<sandboxVars, parseVars, loadVars>>

\* The Bi-directional / Outbound / Inbound buttons.
SetHighlightMode(mode) ==
    /\ highlightMode' = mode
    /\ UNCHANGED <<selectedFile, hoveredFile, highlightDepth>>
    /\ RunEffect
    /\ UNCHANGED <<sandboxVars, parseVars, loadVars>>

\* The depth slider (min 1) and the Reset button (depth 1).
SetHighlightDepth(depth) ==
    /\ highlightDepth' = depth
    /\ UNCHANGED <<selectedFile, hoveredFile, highlightMode>>
    /\ RunEffect
    /\ UNCHANGED <<sandboxVars, parseVars, loadVars>>

NextHighlight ==
    \/ \E j \in 1..Len(graphData.nodes) : HandleNodeClick(graphData.nodes[j])
    \/ HandleNodeClick(Null)
    \/ \E j \in 1..Len(graphData.nodes) : HandleNodeHover(graphData.nodes[j])
    \/ HandleNodeHover(Null)
    \/ \E i \in 1..Len(files) : SidebarClick(files[i])
    \/ \E i \in 1..Len(files) : SidebarMouseEnter(files[i])
    \/ SidebarMouseLeave
    \/ CloseDocPanel
    \/ \E mode \in {"all", "out", "in"} : SetHighlightMode(mode)
    \/ \E depth \in 1..MaxDepth : SetHighlightDepth(depth)

SpecHighlight == InitHighlight /\ [][NextHighlight]_vars

----------------------------------------------------------------------------
(* State machine of the sandbox with a file of another repository selected *)

\* The state once a repository load has finished while the DocPanel still
\* shows a file selected in the repository loaded before.
InitStale ==
    /\ \E repo \in Repositories : files \in FileLists(repo)
    /\ graphData = buildGraph(files)
    /\ builtFrom = files
    /\ sandboxMoves = << >>
    /\ lastMove = Null
    /\ selectedFile = StaleFile
    /\ hoveredFile = Null
    /\ highlightMode = "all"
    /\ highlightDepth = 1
    /\ highlight = HighlightEffect(graphData, selectedFile, hoveredFile,
                                   highlightMode, highlightDepth)
    /\ content = << >>
    /\ parsed = Null
    /\ AfterLoad(files)

\* DocPanel "Apply": onMove(newPath) => handleSandboxMove(selectedFile.path, newPath)
NextStale ==
    \E newPath \in NewPathPool \cup {selectedFile.path} :
        HandleSandboxMove(selectedFile.path, newPath)

SpecStale == InitStale /\ [][NextStale]_vars

----------------------------------------------------------------------------
(* State machine of the include parser *)

\* lines joined by newlines.
RECURSIVE JoinLines(_)
JoinLines(lines) ==
    IF Len(lines) = 0 THEN << >>
    ELSE IF Len(lines) = 1 THEN lines[1]
         ELSE lines[1] \o <<"\n">> \o JoinLines(Tail(lines))

\* The texts of up to MaxLines lines.
Texts == {JoinLines(ls) : ls \in UNION {[1..n -> LinePool] : n \in 0..MaxLines}}

\* A fetched file text, before any repository is loaded into the view.
InitParse ==
    /\ content \in Texts
    /\ parsed = Null
    /\ files = << >>
    /\ graphData = Null
    /\ builtFrom = << >>
    /\ sandboxMoves = << >>
    /\ lastMove = Null
    /\ selectedFile = Null
    /\ hoveredFile = Null
    /\ highlightMode = "all"
    /\ highlightDepth = 1
    /\ highlight = NoHighlight
    /\ AfterLoad(files)

\* includes: parseCppIncludes(content) in handleRepoSelected
ParseContent ==
    /\ parsed = Null
    /\ parsed' = [includes |-> parseCppIncludes(content)]
    /\ UNCHANGED <<content, sandboxVars, viewVars, loadVars>>

NextParse == ParseContent

SpecParse == InitParse /\ [][NextParse]_vars

----------------------------------------------------------------------------
(* Repository load (App.tsx handleRepoSelected) *)

\* Program constants of the load.
chunkSize == 30

filesToFetchLimit == 3000

externalPathsLimit == 500

secondaryPathsLimit == 300

tertiaryPathsLimit == 150

recentCommitsLimit == 10

\* Largest number of commits the commits request returns.
MaxCommits == 1

inc_util_h == <<"u", "t", "i", "l", ".", "h">>
inc_y_cpp == <<"y", ".", "c", "p", "p">>
dir_a == <<"a">>
dir_docs == <<"d", "o", "c", "s">>
docs_readme_md == dir_docs \o <<"/", "R", "E", "A", "D", "M", "E", ".", "m", "d">>

cppExtensions ==
    {<<".", "c", "p", "p">>, <<".", "h">>, <<".", "h", "p", "p">>,
     <<".", "c", "c">>, <<".", "c", "x", "x">>, <<".", "h", "x", "x">>,
     <<".", "c">>, <<".", "h", "h">>, <<".", "i", "n", "l">>}

\* The repositories the selector offers, by id.
RepoIds == {1, 2, 3}

\* The folders of the repository the selector is asked to analyse ("" is
\* the whole tree).
Folders(repo) == IF repo = 1 THEN {<< >>, dir_docs} ELSE {dir_a}

\* What /api/repo/tree returns for the repository.
TreeOfRepo(repo) ==
    CASE repo = 1 -> <<Dir(dir_docs), Blob(docs_readme_md), Blob(lib_b_h),
                       Blob(a_b_h), Blob(a_a_cpp)>>
      [] repo = 2 -> <<Blob(a_a_cpp), Blob(lib_b_h), Blob(lib_util_h)>>
      [] repo = 3 -> <<Blob(a_a_cpp), Blob(lib_b_h), Blob(src_common_util_h),
                       Blob(src_x_y_cpp)>>

\* The paths of all trees.
TreePaths ==
    UNION {{TreeOfRepo(repo)[i].path : i \in 1..Len(TreeOfRepo(repo))} : repo \in RepoIds}

\* The include targets written in the file at path p of the repository.
WrittenIncludes(repo, p) ==
    CASE repo = 1 /\ p = a_a_cpp -> <<inc_b_h>>
      [] repo = 2 /\ p = a_a_cpp -> <<inc_b_h, inc_util_h>>
      [] repo = 2 /\ p = lib_b_h -> <<inc_util_h>>
      [] repo = 3 /\ p = a_a_cpp -> <<inc_b_h>>
      [] repo = 3 /\ p = lib_b_h -> <<inc_common_util_h>>
      [] repo = 3 /\ p = src_common_util_h -> <<inc_y_cpp>>
      [] OTHER -> << >>

IncludeLine(inc) == <<"#">> \o kw_include \o <<" ", "\"">> \o inc \o <<"\"">>

\* data.content of /api/repo/file/content for path p: one #include line per
\* written include, then a line of code.
FileText(repo, p) ==
    JoinLines([k \in 1..Len(WrittenIncludes(repo, p))
                  |-> IncludeLine(WrittenIncludes(repo, p)[k])] \o <<line_text>>)

\* includes = parseCppIncludes(data.content), for every file of every tree.
ParsedIncludes ==
    [repo \in RepoIds |-> [p \in TreePaths |-> parseCppIncludes(FileText(repo, p))]]

\* detail.files of /api/repo/commit: the file names a commit touched.
CommitFiles == {<< >>, <<a_a_cpp>>}

\* Array.prototype.slice(from, to)
Slice(seq, from, to) ==
    IF from >= Len(seq) THEN << >>
    ELSE SubSeq(seq, from + 1, IF to < Len(seq) THEN to ELSE Len(seq))

StartsWith(s, t) == Len(t) <= Len(s) /\ SubSeq(s, 1, Len(t)) = t

\* list.some(x => x.path === p)
HasPath(list, p) == \E i \in 1..Len(list) : list[i].path = p

\* normalizedPath = path ? (path.endsWith('/') ? path : path + '/') : ""
NormalizedPath(path) ==
    IF path = << >> THEN << >>
    ELSE IF EndsWith(path, <<"/">>) THEN path ELSE path \o <<"/">>

\* The filter predicate of filesInScope.
InScope(item, path) ==
    /\ item.type = "blob"
    /\ path = << >> \/ StartsWith(item.path, NormalizedPath(path))
    /\ \E ext \in cppExtensions : EndsWith(ToLowerCase(item.path), ext)

RECURSIVE FilesInScope(_, _, _)
FilesInScope(tree, path, i) ==
    IF i > Len(tree) THEN << >>
    ELSE (IF InScope(tree[i], path) THEN <<tree[i]>> ELSE << >>)
             \o FilesInScope(tree, path, i + 1)

\* currentTree.find(item => item.path.endsWith(incName) || item.path.endsWith(inc))
FindInTree(tree, inc) ==
    LET incName == LastSegmentOr(inc)
        hits == {i \in 1..Len(tree) : \/ EndsWith(tree[i].path, incName)
                                      \/ EndsWith(tree[i].path, inc)}
    IN  IF hits = {} THEN Null ELSE tree[Min(hits)]

\* Set.prototype.add on a set kept in insertion order.
SetAdd(seq, p) ==
    IF \E k \in 1..Len(seq) : seq[k] = p THEN seq ELSE Append(seq, p)

\* Whether the include's tree entry is queued for the next pass: pass 1
\* queues what is outside filesInScope, passes 2 and 3 what is not loaded
\* yet, pass 4 nothing.
Queues(l, found) ==
    /\ found # Null
    /\ l.pass < 4
    /\ IF l.pass = 1 THEN ~ HasPath(l.filesInScope, found.path)
                     ELSE ~ HasPath(l.loadedFiles, found.path)

\* includes.forEach(inc => ...) from include k on.
RECURSIVE Discover(_, _, _)
Discover(l, includes, k) ==
    IF k > Len(includes) THEN l
    ELSE LET found == FindInTree(l.currentTree, includes[k])
         IN  Discover(IF Queues(l, found)
                      THEN [l EXCEPT !.discovered = SetAdd(@, found.path)]
                      ELSE l,
                      includes, k + 1)

\* The continuation of one content fetch: on a JSON answer with content the
\* file is parsed, pushed and its includes are looked up in the tree.
Completed(l, p, ok) ==
    LET rest == [l EXCEPT !.pending = @ \ {p}]
    IN  IF ~ ok THEN rest
        ELSE LET includes == ParsedIncludes[l.repo][p]
             IN  Discover([rest EXCEPT
                              !.loadedFiles = Append(@, CodeFile(p, includes))],
                          includes, 1)

\* The slice taken of the queue of a header pass.
PassLimit(pass) ==
    CASE pass = 2 -> externalPathsLimit
      [] pass = 3 -> secondaryPathsLimit
      [] OTHER    -> tertiaryPathsLimit

\* Variant of SkipsFetch without the loadedFiles.some test.
SkipsFetchNever(l, p) == FALSE

\* if (loadedFiles.some(f => f.path === p)) return;  (header passes only)
SkipsFetch(l, p) == l.pass > 1 /\ HasPath(l.loadedFiles, p)

\* The locals of a call handleRepoSelected(repo, path) at its first line.
NewLoad(repo, path, token) ==
    [pc |-> "tree", outcome |-> "none", repo |-> repo, path |-> path,
     token |-> token, currentTree |-> << >>, filesInScope |-> << >>,
     pass |-> 0, paths |-> << >>, i |-> 0, pending |-> {},
     loadedFiles |-> << >>, discovered |-> << >>,
     commits |-> {}, touched |-> << >>]

\* What is kept of a call that has returned: its arguments and what it
\* reported, "loaded", "loadedNoChurn" (console message only), "noCpp" or
\* "error" (alerts).
Ended(l, outcome) ==
    [NewLoad(l.repo, l.path, FALSE) EXCEPT !.pc = "ended", !.outcome = outcome]

\* After the four passes: throw when nothing was loaded, otherwise
\* setFiles(loadedFiles) and, with a token, the commits request.
AfterPasses(l) ==
    IF Len(l.loadedFiles) = 0 THEN [l EXCEPT !.pc = "throw"]
    ELSE IF l.token THEN [l EXCEPT !.pc = "commits"]
         ELSE [l EXCEPT !.pc = "graph"]

\* The chunk loops from offset l.i of pass l.pass on, up to the next chunk
\* with a fetch in flight: chunk.map starts every fetch of the chunk (after
\* the loadedFiles test in the header passes) before any of them settles.
RECURSIVE Advance(_)
Advance(l) ==
    IF l.i < Len(l.paths)
    THEN LET chunk   == Slice(l.paths, l.i, l.i + chunkSize)
             started == {chunk[k] : k \in {x \in 1..Len(chunk) :
                                              ~ SkipsFetch(l, chunk[x])}}
         IN  IF started # {} THEN [l EXCEPT !.pending = started]
             ELSE Advance([l EXCEPT !.i = @ + chunkSize])
    ELSE IF l.pass < 4
         THEN Advance([l EXCEPT !.pass = @ + 1,
                                !.paths = Slice(l.discovered, 0, PassLimit(l.pass + 1)),
                                !.discovered = << >>,
                                !.i = 0])
         ELSE AfterPasses(l)

\* From the tree to the first chunk: filesInScope, the early return when it
\* is empty, filesToFetch.
EnterScope(l, tree) ==
    LET filesInScope == FilesInScope(tree, l.path, 1)
        filesToFetch == Slice(filesInScope, 0, filesToFetchLimit)
    IN  IF Len(filesInScope) = 0
        THEN [l EXCEPT !.pc = "return"]
        ELSE Advance([l EXCEPT !.pc = "content",
                               !.currentTree = tree,
                               !.filesInScope = filesInScope,
                               !.pass = 1,
                               !.paths = [k \in 1..Len(filesToFetch) |-> filesToFetch[k].path],
                               !.i = 0])

\* churn: churnMap[f.path] || 0
Churn(touched, p) == Cardinality({k \in 1..Len(touched) : touched[k] = p})

\* loadedFiles.map(f => ({...f, churn: churnMap[f.path] || 0}))
FilesWithChurn(l) ==
    [k \in 1..Len(l.loadedFiles) |->
        [name |-> l.loadedFiles[k].name, path |-> l.loadedFiles[k].path,
         includes |-> l.loadedFiles[k].includes,
         churn |-> Churn(l.touched, l.loadedFiles[k].path)]]

\* Variant of Finally that leaves the loader flag as it is.
FinallySkipped(loading) == loading

\* finally { setLoadingRepo(false) } and the two setLoadingRepo(false)
\* before a return.
Finally(loading) == FALSE

\* The state once the page has loaded: nobody signed in, no repository.
InitLoad ==
    /\ files = << >>
    /\ graphData = Null
    /\ builtFrom = << >>
    /\ sandboxMoves = << >>
    /\ lastMove = Null
    /\ selectedFile = Null
    /\ hoveredFile = Null
    /\ highlightMode = "all"
    /\ highlightDepth = 1
    /\ highlight = NoHighlight
    /\ content = << >>
    /\ parsed = Null
    /\ user = Null
    /\ loadingRepo = FALSE
    /\ repoTree = << >>
    /\ currentRepoId = 0
    /\ load = Null

\* What no step of a load touches.
loadKeeps == <<sandboxMoves, lastMove, selectedFile, hoveredFile, highlightMode,
               highlightDepth, parseVars, user>>

\* checkUser: /api/user answered with the user.
CheckUser ==
    /\ user = Null
    /\ user' = SignedIn
    /\ UNCHANGED <<sandboxVars, viewVars, parseVars, loadingRepo, repoTree,
                   currentRepoId, load>>

\* handleLogout, once /api/logout has answered.
HandleLogout ==
    /\ user # Null
    /\ user' = Null
    /\ files' = << >>
    /\ graphData' = Null
    /\ builtFrom' = << >>
    /\ highlight' = HighlightEffect(Null, selectedFile, hoveredFile,
                                    highlightMode, highlightDepth)
    /\ UNCHANGED <<sandboxMoves, lastMove, selectedFile, hoveredFile,
                   highlightMode, highlightDepth, parseVars, loadingRepo,
                   repoTree, currentRepoId, load>>

\* The "Switch Repository" button, rendered while files is not empty.
SwitchRepository ==
    /\ user # Null
    /\ Len(files) > 0
    /\ files' = << >>
    /\ graphData' = Null
    /\ builtFrom' = << >>
    /\ repoTree' = << >>
    /\ currentRepoId' = 0
    /\ highlight' = HighlightEffect(Null, selectedFile, hoveredFile,
                                    highlightMode, highlightDepth)
    /\ UNCHANGED <<sandboxMoves, lastMove, selectedFile, hoveredFile,
                   highlightMode, highlightDepth, parseVars, user, loadingRepo,
                   load>>

\* RepoSelector's onRepoSelected, rendered for a signed-in user while files
\* is empty and the loader is off: handleRepoSelected up to its first await.
HandleRepoSelected(repo, path, token) ==
    /\ user # Null
    /\ Len(files) = 0
    /\ ~ loadingRepo
    /\ LET l == IF Len(repoTree) = 0 \/ currentRepoId # repo
                THEN NewLoad(repo, path, token)
                ELSE EnterScope(NewLoad(repo, path, token), repoTree)
       IN  IF l.pc = "return"
           THEN /\ load' = Ended(l, "noCpp")
                /\ loadingRepo' = Finally(TRUE)
           ELSE /\ load' = l
                /\ loadingRepo' = TRUE
    /\ UNCHANGED <<sandboxVars, viewVars, parseVars, user, repoTree, currentRepoId>>

\* The tree request settles.
TreeFetched(ok) ==
    /\ load # Null
    /\ load.pc = "tree"
    /\ IF ok
       THEN LET l == EnterScope(load, TreeOfRepo(load.repo))
            IN  /\ repoTree' = TreeOfRepo(load.repo)
                /\ currentRepoId' = load.repo
                /\ load' = IF l.pc = "return" THEN Ended(l, "noCpp") ELSE l
                /\ loadingRepo' = IF l.pc = "return" THEN Finally(loadingRepo)
                                  ELSE loadingRepo
       ELSE /\ load' = Ended(load, "error")
            /\ loadingRepo' = Finally(loadingRepo)
            /\ UNCHANGED <<repoTree, currentRepoId>>
    /\ UNCHANGED <<sandboxVars, viewVars, parseVars, user>>

\* The locals once the content request of p has settled: with the last
\* request of a chunk the loops run on.
AfterFetch(l, p, ok) ==
    LET done == Completed(l, p, ok)
    IN  IF done.pending = {}
        THEN Advance([done EXCEPT !.i = @ + chunkSize])
        ELSE done

\* setGraphData(data) with the list the graph was built from, and the
\* highlighting effect that runs on the new data.
SetGraphData(fs) ==
    \E data \in {buildGraph(fs)} :
        /\ graphData' = data
        /\ builtFrom' = fs
        /\ highlight' = HighlightEffect(data, selectedFile, hoveredFile,
                                        highlightMode, highlightDepth)

\* The content request of path p settles; with the last one of a chunk the
\* call runs on to the next fetch in flight or to its end.
ContentFetched(p, ok) ==
    /\ load # Null
    /\ load.pc = "content"
    /\ p \in load.pending
    /\ \E l \in {AfterFetch(load, p, ok)} :
           CASE l.pc = "throw" ->
                  /\ load' = Ended(l, "error")
                  /\ loadingRepo' = Finally(loadingRepo)
                  /\ UNCHANGED <<files, graphData, builtFrom, highlight>>
             [] l.pc = "commits" ->
                  /\ load' = l
                  /\ files' = l.loadedFiles
                  /\ UNCHANGED <<graphData, builtFrom, highlight, loadingRepo>>
             [] l.pc = "graph" ->
                  /\ load' = Ended(l, "loaded")
                  /\ files' = l.loadedFiles
                  /\ SetGraphData(l.loadedFiles)
                  /\ loadingRepo' = Finally(loadingRepo)
             [] OTHER ->
                  /\ load' = l
                  /\ UNCHANGED <<files, graphData, builtFrom, highlight, loadingRepo>>
    /\ UNCHANGED <<loadKeeps, repoTree, currentRepoId>>

\* setFiles(filesWithChurn); setGraphData(buildGraph(filesWithChurn));
\* setLoadingRepo(false); return
FinishWithChurn(l) ==
    \E filesWithChurn \in {FilesWithChurn(l)} :
        /\ load' = Ended(l, "loaded")
        /\ files' = filesWithChurn
        /\ SetGraphData(filesWithChurn)
        /\ loadingRepo' = Finally(loadingRepo)

\* The commits request settles: with n commits, or with an error or a
\* non-JSON answer (n = -1), after which the graph is built without churn.
CommitsFetched(n) ==
    /\ load # Null
    /\ load.pc = "commits"
    /\ IF n < 0
       THEN /\ load' = Ended(load, "loadedNoChurn")
            /\ SetGraphData(load.loadedFiles)
            /\ loadingRepo' = Finally(loadingRepo)
            /\ UNCHANGED files
       ELSE IF n = 0
            THEN FinishWithChurn(load)
            ELSE /\ load' = [load EXCEPT !.pc = "details",
                                !.commits = 1..(IF n < recentCommitsLimit THEN n
                                                ELSE recentCommitsLimit)]
                 /\ UNCHANGED <<files, graphData, builtFrom, highlight, loadingRepo>>
    /\ UNCHANGED <<loadKeeps, repoTree, currentRepoId>>

\* The detail request of commit c settles with the file names it touched
\* (none when the request failed).
DetailFetched(c, touched) ==
    /\ load # Null
    /\ load.pc = "details"
    /\ c \in load.commits
    /\ touched \in CommitFiles
    /\ \E l \in {[load EXCEPT !.commits = @ \ {c}, !.touched = @ \o touched]} :
           IF l.commits = {}
           THEN FinishWithChurn(l)
           ELSE /\ load' = l
                /\ UNCHANGED <<files, graphData, builtFrom, highlight, loadingRepo>>
    /\ UNCHANGED <<loadKeeps, repoTree, currentRepoId>>

\* A request of the load in flight settles.
FetchSettles ==
    \/ \E ok \in BOOLEAN : TreeFetched(ok)
    \/ \E ok \in BOOLEAN : \E p \in TreePaths : ContentFetched(p, ok)
    \/ \E n \in -1..MaxCommits : CommitsFetched(n)
    \/ \E c \in 1..MaxCommits : \E touched \in CommitFiles :
          DetailFetched(c, touched)

NextLoad ==
    \/ CheckUser
    \/ HandleLogout
    \/ SwitchRepository
    \/ \E repo \in RepoIds : \E path \in Folders(repo) : \E token \in BOOLEAN :
          HandleRepoSelected(repo, path, token)
    \/ \E ok \in BOOLEAN : TreeFetched(ok)
    \/ \E ok \in BOOLEAN : \E p \in TreePaths : ContentFetched(p, ok)
    \/ \E n \in -1..MaxCommits : CommitsFetched(n)
    \/ \E c \in 1..MaxCommits : \E touched \in CommitFiles :
          DetailFetched(c, touched)

SpecLoad == InitLoad /\ [][NextLoad]_vars

\* Every request settles: a load with a request in flight takes its next step.
FairSpecLoad == SpecLoad /\ WF_vars(FetchSettles)

----------------------------------------------------------------------------
(* State machine of a session: loads, Switch Repository, selection, moves *)

\* The repositories the user of a session loads, each from its folder a.
SessionRepoIds == {2, 3}

\* A signed-in user in front of the repository selector.
InitSession ==
    /\ files = << >>
    /\ graphData = Null
    /\ builtFrom = << >>
    /\ sandboxMoves = << >>
    /\ lastMove = Null
    /\ selectedFile = Null
    /\ hoveredFile = Null
    /\ highlightMode = "all"
    /\ highlightDepth = 1
    /\ highlight = NoHighlight
    /\ content = << >>
    /\ parsed = Null
    /\ user = SignedIn
    /\ loadingRepo = FALSE
    /\ repoTree = << >>
    /\ currentRepoId = 0
    /\ load = Null

\* The nodes GraphView draws: it is rendered only while graphData is set.
DrawnNodes == IF graphData # Null THEN graphData.nodes ELSE << >>

\* The file DocPanel shows: it is rendered only while selectedFile is set.
PanelFiles == {selectedFile} \ {Null}

\* A session without a token: the load has no churn stage, and its requests
\* are answered.
NextSession ==
    \/ \E repo \in SessionRepoIds : HandleRepoSelected(repo, dir_a, FALSE)
    \/ \E ok \in BOOLEAN : TreeFetched(ok)
    \/ \E p \in TreePaths : ContentFetched(p, TRUE)
    \/ SwitchRepository
    \/ \E j \in 1..Len(DrawnNodes) : HandleNodeClick(DrawnNodes[j])
    \/ \E j \in 1..Len(DrawnNodes) : HandleNodeHover(DrawnNodes[j])
    \/ \E i \in 1..Len(files) : SidebarClick(files[i])
    \/ \E f \in PanelFiles : \E newPath \in NewPathPool :
          HandleSandboxMove(f.path, newPath)

SpecSession == InitSession /\ [][NextSession]_vars

----------------------------------------------------------------------------
(* Properties *)

NodeIds(g) == {g.nodes[i].id : i \in 1..Len(g.nodes)}

EdgeSet(g) == {<<g.links[k].source, g.links[k].target>> : k \in 1..Len(g.links)}

\* A sandbox move produced the displayed graph.
Moved == graphData # Null /\ sandboxMoves # << >>

\* C1: in the graph built from the loaded files and in every graph produced by
\* a sandbox move, the source and the target of every edge are ids of nodes of
\* that graph.
EdgeEndpointsExist ==
    graphData # Null =>
        \A k \in 1..Len(graphData.links) :
            /\ graphData.links[k].source \in NodeIds(graphData)
            /\ graphData.links[k].target \in NodeIds(graphData)

\* A sandbox move renamed a file and the new graph has an edge to the new path.
EdgeToMovedFile ==
    /\ Moved
    /\ builtFrom # files
    /\ \E k \in 1..Len(graphData.links) :
          /\ graphData.links[k].target = lib_b_h
          /\ \A i \in 1..Len(files) : files[i].path # lib_b_h

\* C2: no edge of the graph has the same source and target, also when an
\* include target of a file resolves to the file itself.
NoSelfEdges ==
    graphData # Null =>
        \A k \in 1..Len(graphData.links) :
            graphData.links[k].source # graphData.links[k].target

\* Some file of the graph's file set declares an include that resolves to the
\* file itself.
SelfIncludeBuilt ==
    /\ graphData # Null
    /\ \E i \in 1..Len(builtFrom) :
          \E k \in 1..Len(builtFrom[i].includes) :
              ResolveInclude(builtFrom, builtFrom[i], builtFrom[i].includes[k])
                  = builtFrom[i].path

\* C3 (as claimed): the graph holds at most one edge for each ordered pair
\* (source, target).
NoDuplicateEdges ==
    graphData # Null =>
        \A j, k \in 1..Len(graphData.links) :
            graphData.links[j] = graphData.links[k] => j = k

\* The reorderings of a file list.
Reorderings(fs) ==
    {[i \in 1..Len(fs) |-> fs[p[i]]] :
        p \in {q \in [1..Len(fs) -> 1..Len(fs)] :
                 \A i, j \in 1..Len(fs) : q[i] = q[j] => i = j}}

\* The paths of fs that match include target t of file f at each step.
RelativeMatches(fs, f, t) ==
    {fs[i].path : i \in {j \in 1..Len(fs) :
        RelativeMatch(fs[j], Normalize(PotentialPath(f, t)), t)}}

FilenameMatches(fs, t) ==
    {fs[i].path : i \in {j \in 1..Len(fs) :
        LastSegmentOr(fs[j].path) = LastSegmentOr(t)}}

FuzzyMatches(fs, t) ==
    {fs[i].path : i \in {j \in 1..Len(fs) : FuzzyMatch(fs[j], t)}}

\* The first step that matches any file of fs matches files of one path only.
Unambiguous(fs, f, t) ==
    IF RelativeMatches(fs, f, t) # {}
    THEN Cardinality(RelativeMatches(fs, f, t)) = 1
    ELSE IF FilenameMatches(fs, t) # {}
         THEN Cardinality(FilenameMatches(fs, t)) = 1
         ELSE Cardinality(FuzzyMatches(fs, t)) <= 1

AllUnambiguous(fs) ==
    \A i \in 1..Len(fs) :
        \A k \in 1..Len(fs[i].includes) :
            Unambiguous(fs, fs[i], fs[i].includes[k])

\* C5 (as claimed): every reordering of the files the graph was built from
\* gives the same set of edges.
OrderIndependent ==
    graphData # Null =>
        \A gs \in Reorderings(builtFrom) :
            EdgeSet(buildGraph(gs)) = EdgeSet(graphData)

\* C5 (amended): when every include target is matched, at the step that
\* resolves it, by files of one path only, every reordering of the files gives
\* the same set of edges.
OrderIndependentWhenUnambiguous ==
    (graphData # Null /\ AllUnambiguous(builtFrom)) =>
        \A gs \in Reorderings(builtFrom) :
            EdgeSet(buildGraph(gs)) = EdgeSet(graphData)

\* A graph with an edge, built from three files whose includes are unambiguous.
UnambiguousGraphBuilt ==
    /\ graphData # Null
    /\ AllUnambiguous(builtFrom)
    /\ Len(builtFrom) >= 3
    /\ Len(graphData.links) >= 1

\* Include target t of file f has a relative-path match and a file that
\* matches by its final segment only.
BothKindsMatch(fs, f, t) ==
    /\ RelativeMatches(fs, f, t) # {}
    /\ FilenameMatches(fs, t) \ RelativeMatches(fs, f, t) # {}

DotDotIncludeResolved ==
    (/\ graphData # Null
     /\ \E i \in 1..Len(builtFrom) : builtFrom[i].path = src_common_util_h
     /\ \E i \in 1..Len(builtFrom) :
           /\ builtFrom[i].path = src_x_y_cpp
           /\ \E k \in 1..Len(builtFrom[i].includes) :
                 builtFrom[i].includes[k] = inc_up_common_util_h)
        => <<src_x_y_cpp, src_common_util_h>> \in EdgeSet(graphData)

\* Index of the first file of fs whose final path segment is that of t.
FirstSameNamed(fs, t) ==
    Min({i \in 1..Len(fs) : LastSegmentOr(fs[i].path) = LastSegmentOr(t)})

MoveScenarioLoaded ==
    /\ Len(files) = 2
    /\ {files[1], files[2]} = {CodeFile(a_a_cpp, <<inc_b_h>>), CodeFile(a_b_h, << >>)}

\* C9 (as claimed): with a/a.cpp including "b.h" and a/b.h loaded, the graph
\* built from the loaded files has exactly the edge a/a.cpp -> a/b.h, and in
\* the graph of the simulated move of a/b.h to lib/b.h the node a/a.cpp is
\* flagged isBroken.
MoveScenarioFlagsIncluder ==
    (MoveScenarioLoaded /\ graphData # Null) =>
        /\ builtFrom = files =>
              graphData.links = << [source |-> a_a_cpp, target |-> a_b_h] >>
        /\ (Moved /\ builtFrom = UpdatedFiles(files, a_b_h, lib_b_h)) =>
              \E j \in 1..Len(graphData.nodes) :
                  /\ graphData.nodes[j].id = a_a_cpp
                  /\ graphData.nodes[j].isBroken

\* C10 (as claimed): in the graph of a simulated move a node is flagged
\* isBroken exactly when some include target of its file is resolved by none
\* of the three steps against the moved file set.
BrokenIffUnresolved ==
    Moved =>
        \A j \in 1..Len(graphData.nodes) :
            graphData.nodes[j].isBroken
                <=> \E k \in 1..Len(builtFrom[j].includes) :
                       ResolveInclude(builtFrom, builtFrom[j], builtFrom[j].includes[k])
                           = Undefined

PathsOf(fs) == {fs[i].path : i \in 1..Len(fs)}

Flagged(n) == "isBroken" \in DOMAIN n /\ n.isBroken

\* The displayed graph shows what buildGraph gives for the loaded files, with
\* no node flagged as broken.
ShowsLoadedGraph ==
    LET g == buildGraph(files)
    IN  /\ Len(graphData.nodes) = Len(g.nodes)
        /\ \A j \in 1..Len(g.nodes) :
              /\ graphData.nodes[j].id = g.nodes[j].id
              /\ graphData.nodes[j].name = g.nodes[j].name
              /\ graphData.nodes[j].path = g.nodes[j].path
              /\ ~ Flagged(graphData.nodes[j])
        /\ graphData.links = g.links
        /\ graphData.files = g.files

\* C11: after a sandbox move of a loaded file onto its own path the displayed
\* graph is the graph of the loaded files and no node is flagged as broken,
\* whatever headers the files include.
SamePathMoveChangesNothing ==
    (/\ graphData # Null
     /\ lastMove # Null
     /\ lastMove.oldPath = lastMove.newPath
     /\ lastMove.oldPath \in PathsOf(files)) => ShowsLoadedGraph

\* C12: after a sandbox move whose old path is the path of no loaded file the
\* displayed graph is the graph of the loaded files and no node is flagged as
\* broken.
AbsentPathMoveChangesNothing ==
    (/\ graphData # Null
     /\ lastMove # Null
     /\ lastMove.oldPath \notin PathsOf(files)) => ShowsLoadedGraph

\* C13: no step of the sandbox changes the loaded file list; a renamed file
\* exists only in the file list the simulated graph is built from.
MoveKeepsFiles == [][files' = files]_vars

\* A move renamed a loaded file to a path that no loaded file has: the new
\* path is in the simulated file list only.
RenamedOnlyInSimulation ==
    /\ graphData # Null
    /\ lastMove # Null
    /\ lastMove.oldPath \in PathsOf(files)
    /\ lastMove.newPath \notin PathsOf(files)
    /\ lastMove.newPath \in PathsOf(builtFrom)
    /\ lastMove.oldPath \notin PathsOf(builtFrom)

\* C17: the name of every node of the displayed graph is the final segment
\* of the node's path, after a sandbox move too.
NodeNameIsLastSegment ==
    graphData # Null =>
        \A j \in 1..Len(graphData.nodes) :
            graphData.nodes[j].name = LastSegmentOr(graphData.nodes[j].path)

\* C18: for every loaded file f, the files the Dependents view lists for f
\* are the files with an edge to f in the graph built from the same files.
DependentsAreIncomingEdges ==
    \A i \in 1..Len(files) :
        LET deps == Dependents(files, files[i])
        IN  {deps[d].path : d \in 1..Len(deps)}
                = {e[1] : e \in {x \in EdgeSet(buildGraph(files)) :
                                    x[2] = files[i].path}}

\* Include target t of file f is matched by no file of fs at any step.
Unresolved(fs, f, t) ==
    /\ RelativeMatches(fs, f, t) = {}
    /\ FilenameMatches(fs, t) = {}
    /\ FuzzyMatches(fs, t) = {}

\* fs with include k of file i taken out.
WithoutInclude(fs, i, k) ==
    [fs EXCEPT ![i].includes =
        SubSeq(fs[i].includes, 1, k - 1)
            \o SubSeq(fs[i].includes, k + 1, Len(fs[i].includes))]

\* C19: an include target that no file matches at any step adds no edge and
\* does not stop the build: the edges are those of the same files without
\* that include, and the declaring file still lists the target.
UnresolvedIncludeAddsNothing ==
    graphData # Null =>
        \A i \in 1..Len(builtFrom) :
            \A k \in 1..Len(builtFrom[i].includes) :
                Unresolved(builtFrom, builtFrom[i], builtFrom[i].includes[k]) =>
                    /\ graphData.links
                           = buildGraph(WithoutInclude(builtFrom, i, k)).links
                    /\ \A l \in 1..Len(graphData.links) :
                          graphData.links[l].target \in PathsOf(builtFrom)
                    /\ \E g \in {graphData.files[p] : p \in DOMAIN graphData.files} :
                          /\ g.path = builtFrom[i].path
                          /\ (g = builtFrom[i] =>
                                 builtFrom[i].includes[k]
                                     \in {g.includes[m] : m \in 1..Len(g.includes)})

\* A graph built from a file with an unresolved include and an include that
\* gave an edge.
UnresolvedBesideEdge ==
    /\ graphData # Null
    /\ Len(graphData.links) >= 1
    /\ \E i \in 1..Len(builtFrom) :
          /\ \E k \in 1..Len(builtFrom[i].includes) :
                Unresolved(builtFrom, builtFrom[i], builtFrom[i].includes[k])
          /\ \E l \in 1..Len(graphData.links) :
                graphData.links[l].source = builtFrom[i].path

\* The path the shown highlight starts from.
Active == ActivePath(hoveredFile, selectedFile)

\* What the effect computes at depth k for the shown graph, start and mode.
AtDepth(k) == Highlight(graphData.links, Active, highlightMode, k)

\* C14: for the shown graph, start and mode, the nodes and links reached
\* within depth k are among those reached within depth k + 1, and the shown
\* highlight contains what every smaller depth reaches.
ReachGrowsWithDepth ==
    highlight # NoHighlight =>
        /\ highlight = AtDepth(highlightDepth)
        /\ \A k \in 0..MaxDepth :
              /\ AtDepth(k).neighbors \subseteq AtDepth(k + 1).neighbors
              /\ AtDepth(k).activeLinks \subseteq AtDepth(k + 1).activeLinks
        /\ \A k \in 0..highlightDepth :
              /\ AtDepth(k).neighbors \subseteq highlight.neighbors
              /\ AtDepth(k).activeLinks \subseteq highlight.activeLinks

\* The slider was moved to depth 2 and the highlight reaches a node and a
\* link that depth 1 does not.
DeeperReachesMore ==
    /\ highlight # NoHighlight
    /\ highlightDepth = 2
    /\ highlight.neighbors # AtDepth(1).neighbors
    /\ highlight.activeLinks # AtDepth(1).activeLinks

\* Link l may be followed from path p under the mode.
Permitted(link, p, mode) ==
    \/ link.source = p /\ mode \in {"all", "out"}
    \/ link.target = p /\ mode \in {"all", "in"}

\* C15: at depth 0, from every start and under every mode, only the start is
\* reached and no link; the same holds at the shown depth when no link of
\* the graph may be followed from the start under the mode.
OnlyStartWithoutDepthOrEdge ==
    /\ graphData # Null =>
          \A p \in NodeIds(graphData) \cup {StaleFile.path} :
              \A mode \in {"all", "out", "in"} :
                  Highlight(graphData.links, p, mode, 0)
                      = [neighbors |-> {p}, activeLinks |-> {}]
    /\ (/\ highlight # NoHighlight
        /\ \A l \in 1..Len(graphData.links) :
              ~ Permitted(graphData.links[l], Active, highlightMode))
          => highlight = [neighbors |-> {Active}, activeLinks |-> {}]

\* The start is a node with a link, but the mode permits none of its links.
StartWithForbiddenLinkOnly ==
    /\ highlight # NoHighlight
    /\ Active \in NodeIds(graphData)
    /\ \E l \in 1..Len(graphData.links) :
          Active \in {graphData.links[l].source, graphData.links[l].target}
    /\ \A l \in 1..Len(graphData.links) :
          ~ Permitted(graphData.links[l], Active, highlightMode)

\* C16: when the start is no node of the graph and no endpoint of a link,
\* only the start is reached and no link.
AbsentStartReachesItself ==
    (/\ highlight # NoHighlight
     /\ Active \notin NodeIds(graphData)
     /\ \A l \in 1..Len(graphData.links) :
           Active \notin {graphData.links[l].source, graphData.links[l].target})
        => highlight = [neighbors |-> {Active}, activeLinks |-> {}]

\* The selected file is of another repository, the graph has links and the
\* depth slider was moved.
AbsentStartSelected ==
    /\ highlight # NoHighlight
    /\ Active \notin NodeIds(graphData)
    /\ Len(graphData.links) >= 1
    /\ highlightDepth = 2

\* One step along the links the mode permits, from every path of S.
StepFrom(links, S, mode) ==
    S \cup {links[l].target : l \in {x \in 1..Len(links) :
                 links[x].source \in S /\ mode \in {"all", "out"}}}
      \cup {links[l].source : l \in {x \in 1..Len(links) :
                 links[x].target \in S /\ mode \in {"all", "in"}}}

\* The paths at shortest distance at most k from start under the mode.
RECURSIVE Within(_, _, _, _)
Within(links, start, mode, k) ==
    IF k = 0 THEN {start}
    ELSE StepFrom(links, Within(links, start, mode, k - 1), mode)

\* The level the loop expands at iteration k for the shown graph, start and
\* mode (iteration 0 expands the start).
Frontier(k) ==
    IF k = 0 THEN <<Active>>
    ELSE Levels(graphData.links, 0, k, <<Active>>, highlightMode,
                InitialHighlight(Active)).nextLevel

\* C21: the highlighted nodes are exactly the paths at shortest distance at
\* most the depth from the start under the mode, for the shown depth and for
\* every depth 1..MaxDepth+1; no path is expanded twice, neither within a
\* level nor at two levels; and once a depth adds no node every greater depth
\* gives the same result.
BreadthFirstWithinDepth ==
    highlight # NoHighlight =>
        /\ highlight.neighbors
              = Within(graphData.links, Active, highlightMode, highlightDepth)
        /\ \A k \in 1..(MaxDepth + 1) :
              /\ AtDepth(k).neighbors
                    = Within(graphData.links, Active, highlightMode, k)
              /\ AtDepth(k).neighbors = AtDepth(k - 1).neighbors
                    => AtDepth(k + 1) = AtDepth(k)
        /\ \A j \in 0..(MaxDepth + 1) :
              /\ \A x, y \in 1..Len(Frontier(j)) :
                    Frontier(j)[x] = Frontier(j)[y] => x = y
              /\ \A i \in 0..(j - 1) :
                    \A x \in 1..Len(Frontier(i)), y \in 1..Len(Frontier(j)) :
                        Frontier(i)[x] # Frontier(j)[y]

\* Depth 2 reaches a node at distance 2, and a link the mode permits leads
\* from a node of the first level back to a node already visited.
SecondLevelWithBackLink ==
    /\ highlight # NoHighlight
    /\ highlightDepth = 2
    /\ highlight.neighbors # AtDepth(1).neighbors
    /\ \E l \in 1..Len(graphData.links) :
          \E x \in 1..Len(Frontier(1)) :
              /\ Permitted(graphData.links[l], Frontier(1)[x], highlightMode)
              /\ {graphData.links[l].source, graphData.links[l].target}
                    \subseteq AtDepth(1).neighbors

\* C22: every highlighted link has its source and its target among the
\* highlighted nodes, and every highlighted node other than the start is the
\* source or the target of a highlighted link.
HighlightedLinksJoinHighlightedNodes ==
    highlight # NoHighlight =>
        /\ \A l \in highlight.activeLinks :
              /\ l \in 1..Len(graphData.links)
              /\ graphData.links[l].source \in highlight.neighbors
              /\ graphData.links[l].target \in highlight.neighbors
        /\ \A p \in highlight.neighbors \ {Active} :
              \E l \in highlight.activeLinks :
                  p \in {graphData.links[l].source, graphData.links[l].target}

\* The highlight holds as many links as nodes: one of the links joins two
\* nodes that were both visited before it was scanned.
LinkBetweenVisitedHighlighted ==
    /\ highlight # NoHighlight
    /\ Cardinality(highlight.neighbors) >= 2
    /\ Cardinality(highlight.activeLinks) >= Cardinality(highlight.neighbors)


\* C23: when a file of the list the graph was built from has the path that
\* the declaring file's directory joined with the include target normalizes
\* to, and it is not the declaring file itself, the include resolves to that
\* path and the graph has that edge, whatever other files of the list have a
\* path ending with the target.
ExactRelativeMatchWins ==
    graphData # Null =>
        \A i \in 1..Len(builtFrom) :
            \A k \in 1..Len(builtFrom[i].includes) :
                LET f     == builtFrom[i]
                    t     == f.includes[k]
                    exact == Normalize(PotentialPath(f, t))
                IN  (exact \in PathsOf(builtFrom) /\ exact # f.path)
                        => /\ ResolveInclude(builtFrom, f, t) = exact
                           /\ <<f.path, exact>> \in EdgeSet(graphData)


\* The graph handleSandboxMove(oldPath, newPath) shows for the loaded list fs.
SimulateMove(fs, oldPath, newPath) ==
    LET updatedFiles == UpdatedFiles(fs, oldPath, newPath)
        newGraph     == buildGraph(updatedFiles)
    IN  [newGraph EXCEPT !.nodes = MarkBroken(updatedFiles, newGraph.nodes)]

MoveKeepsNodeIdsDistinct ==
    (graphData # Null /\ lastMove # Null) =>
        /\ \A i, j \in 1..Len(graphData.nodes) :
              graphData.nodes[i].id = graphData.nodes[j].id => i = j
        /\ Cardinality(DOMAIN graphData.files) = Len(graphData.nodes)


\* The paths of the list are pairwise distinct.
\* C26: whenever a file is selected and a graph is displayed, the path of
\* the selected file is the id of a node of the displayed graph.
SelectedFileIsNode ==
    (selectedFile # Null /\ graphData # Null) =>
        selectedFile.path \in NodeIds(graphData)

DistinctPaths(list) ==
    \A i, j \in 1..Len(list) : list[i].path = list[j].path => i = j

\* C28: at every point of a load, whatever the order in which the fetches
\* of the four passes settle and whichever of them fail, loadedFiles holds
\* no path twice, and neither does the file list the load stores.
LoadedPathsDistinct ==
    /\ DistinctPaths(files)
    /\ load # Null => DistinctPaths(load.loadedFiles)

\* The first header pass has queued, for the next pass, a path whose own
\* fetch is still in flight, next to a file it has loaded.
QueuedPathStillInFlight ==
    /\ load # Null
    /\ load.pc = "content"
    /\ load.pass = 2
    /\ Len(load.loadedFiles) >= 2
    /\ \E k \in 1..Len(load.discovered) : load.discovered[k] \in load.pending

\* The load has ended with a graph on display.
LoadShown ==
    /\ load # Null
    /\ load.pc = "ended"
    /\ load.outcome \in {"loaded", "loadedNoChurn"}
    /\ graphData # Null

\* C27: when every loaded file was fetched in the one chunk of the in-scope
\* pass, every other order in which the same fetches could have completed
\* gives the displayed set of edges.
CompletionOrderIrrelevant ==
    (/\ LoadShown
     /\ Len(FilesInScope(TreeOfRepo(load.repo), load.path, 1)) <= chunkSize
     /\ \A i \in 1..Len(builtFrom) :
           HasPath(FilesInScope(TreeOfRepo(load.repo), load.path, 1),
                   builtFrom[i].path))
        => \A r \in Reorderings(builtFrom) :
              EdgeSet(buildGraph(r)) = EdgeSet(graphData)

\* C29: while nobody is signed in (after a logout) or no tree is cached
\* (after Switch Repository, before the tree request of a new load has been
\* answered), the file list is empty and no graph is stored.
StaysClearedUntilNewLoad ==
    (user = Null \/ Len(repoTree) = 0) =>
        (Len(files) = 0 /\ graphData = Null)

\* C30 as stated, a failure of the churn requests counted as a failed load:
\* every load ends with the loader off, and a load that ends with an alert
\* or with the churn failure has changed neither the file list nor the graph.
LoadEndsAndFailureKeepsState ==
    /\ loadingRepo ~> ~ loadingRepo
    /\ [][load' # load =>
            /\ load'.pc = "ended" => ~ loadingRepo'
            /\ load'.pc \in {"tree", "content"} => UNCHANGED <<files, graphData>>
            /\ (load'.pc = "ended"
                  /\ load'.outcome \in {"error", "noCpp", "loadedNoChurn"})
                  => UNCHANGED <<files, graphData>>]_vars

\* C30, amended: every load ends with the loader off; a load that ends with
\* an alert (tree request failed, no content loaded, no C++ file in scope)
\* ends from the tree or content stage and no step of it has changed the
\* file list or the graph; once the file list is stored the load ends with
\* the graph built, with or without churn.
LoadEndsAndAlertKeepsState ==
    /\ loadingRepo ~> ~ loadingRepo
    /\ [][load' # load =>
            /\ load'.pc = "ended" => ~ loadingRepo'
            /\ load'.pc \in {"tree", "content"} => UNCHANGED <<files, graphData>>
            /\ (load'.pc = "ended" /\ load'.outcome \in {"error", "noCpp"})
                  => /\ UNCHANGED <<files, graphData>>
                     /\ load = Null \/ load.pc \in {"ended", "tree", "content"}
            /\ (load # Null /\ load.pc \in {"commits", "details"})
                  => /\ load'.pc \in {"details", "ended"}
                     /\ load'.pc = "ended"
                           => /\ load'.outcome \in {"loaded", "loadedNoChurn"}
                              /\ graphData' # Null]_vars

\* A load whose tree request was answered has ended with the error alert,
\* no content request having given a file, and the loader is off.
LoadEndedWithoutContent ==
    /\ load # Null
    /\ load.pc = "ended"
    /\ load.outcome = "error"
    /\ Len(repoTree) > 0
    /\ ~ loadingRepo


\* The lines of text s (split at newlines).
RECURSIVE LinesOf(_)
LinesOf(s) ==
    LET S == {i \in 1..Len(s) : s[i] = "\n"}
    IN  IF S = {} THEN << s >>
        ELSE << SubSeq(s, 1, Min(S) - 1) >> \o LinesOf(SubSeq(s, Min(S) + 1, Len(s)))

IsBlank(c) == c \in {" ", "\t"}

SkipBlanks(line, i) ==
    IF i > Len(line) THEN i
    ELSE Min({j \in i..(Len(line) + 1) : j = Len(line) + 1 \/ ~ IsBlank(line[j])})

\* The closing delimiter of an opening delimiter.
Closing(open) == IF open = "<" THEN ">" ELSE "\""

\* The positions of the parts of a directive in a line.
DirectiveParts(line) ==
    LET hash    == SkipBlanks(line, 1)
        keyword == SkipBlanks(line, hash + 1)
        open    == SkipBlanks(line, keyword + Len(kw_include))
        S       == IF open > Len(line) THEN {}
                   ELSE {j \in (open + 1)..Len(line) : line[j] = Closing(line[open])}
    IN  [hash |-> hash, keyword |-> keyword, open |-> open,
         close |-> IF S = {} THEN 0 ELSE Min(S)]

\* The line is: blanks, '#', blanks, 'include', at least one blank, and a
\* token between double quotes or between angle brackets.
IsDirective(line) ==
    /\ SkipBlanks(line, 1) <= Len(line)
    /\ line[SkipBlanks(line, 1)] = "#"
    /\ StartsWithAt(line, SkipBlanks(line, SkipBlanks(line, 1) + 1), kw_include)
    /\ LET d == DirectiveParts(line)
       IN  /\ d.open > d.keyword + Len(kw_include)
           /\ d.open <= Len(line)
           /\ line[d.open] \in {"\"", "<"}
           /\ d.close > d.open + 1

DirectiveTarget(line) ==
    LET d == DirectiveParts(line) IN SubSeq(line, d.open + 1, d.close - 1)

\* The targets of the directive lines, in order.
RECURSIVE TargetsOf(_)
TargetsOf(lines) ==
    IF Len(lines) = 0 THEN << >>
    ELSE (IF IsDirective(lines[1]) THEN << DirectiveTarget(lines[1]) >> ELSE << >>)
             \o TargetsOf(Tail(lines))

\* C20: parseCppIncludes returns the targets of the lines of the text that
\* are include directives, in order and with repeats, and the empty sequence
\* when no line is one.
ParsedAreDirectiveTargets ==
    parsed # Null => parsed.includes = TargetsOf(LinesOf(content))

====
